---- MODULE Spec2Model ----
(***************************************************************************)
(* Rank fusion and multi-query retrieval of yilane/rag-related:            *)
(*   - HybridRetriever.search        (03-rag-embedding/03_hybrid_retriever) *)
(*   - BM25Retriever.search, DenseEmbeddingRetriever.search                *)
(*   - RAGFusionRetriever.reciprocal_rank_fusion (04_langchain_RAGFusion)  *)
(*   - SearchService.search_icd_codes (icd10-vectors-demo/search_service)  *)
(*                                                                         *)
(* Numbers.  Python floats are modelled by exact integers:                 *)
(*   - a reciprocal-rank term 1/(k+j) is the integer Unit(k) \div (k+j),   *)
(*     where Unit(k) is the least common multiple of every denominator     *)
(*     that can occur for k, so the division is exact and sums and         *)
(*     comparisons of fused scores are those of the rationals;             *)
(*   - a raw similarity score is an integer count of 1e-5, a sub-query     *)
(*     weight an integer count of tenths, a weighted score their product   *)
(*     (a count of 1e-6).                                                  *)
(* Float rounding of the sums and products is not modelled.                *)
(***************************************************************************)
EXTENDS Integers, Sequences, FiniteSets, TLC

(***************************************************************************)
(* Bounds of the model.                                                    *)
(***************************************************************************)
\* longest corpus given to HybridRetriever
MaxDocs == 2
\* total number of documents over all the lists given to reciprocal_rank_fusion
MaxTotal == 5
\* total number of hits the vector backend returns to one request
MaxHits == 3

Docs == {"A", "B", "C"}
\* lexicographic order of the document ids
DocOrder == <<"A", "B", "C">>
DocLess(a, b) == \E i, j \in 1..Len(DocOrder) : DocOrder[i] = a /\ DocOrder[j] = b /\ i < j

\* values of the fusion constant tried: the smallest legal one, the next, the default
KRrfDefault == 60
KRrfValues == {0, 1, KRrfDefault}

Max2(a, b) == IF a >= b THEN a ELSE b
Min2(a, b) == IF a <= b THEN a ELSE b

RECURSIVE Gcd(_, _)
Gcd(a, b) == IF b = 0 THEN a ELSE Gcd(b, a % b)
Lcm(a, b) == (a \div Gcd(a, b)) * b

RECURSIVE LcmRange(_, _)
\* least common multiple of the non-zero numbers lo..hi
LcmRange(lo, hi) ==
    IF lo > hi THEN 1
    ELSE Lcm(IF lo = 0 THEN 1 ELSE lo, LcmRange(lo + 1, hi))

\* base_retriever = vectorstore.as_retriever(search_kwargs={"k": 3}): the
\* longest list one query of the RAG-Fusion retriever gets
RetrieverK == 3

\* largest list length (hence rank + 1) that occurs in the model
MaxRankPlus1 == Max2(MaxDocs, RetrieverK)
UnitTable == [k \in KRrfValues |-> LcmRange(k, k + MaxRankPlus1)]
\* the common denominator of the fused scores for constant k
Unit(k) == UnitTable[k]

(***************************************************************************)
(* Python helpers: dict (insertion ordered), sorted(..., reverse=True).    *)
(* A dict is the sequence of its items [key, val] in insertion order.      *)
(***************************************************************************)
DictHas(d, key) == \E i \in 1..Len(d) : d[i].key = key
DictGet(d, key) == d[CHOOSE i \in 1..Len(d) : d[i].key = key].val
\* a write that never finds the key
DictSetAppend(d, key, val) == Append(d, [key |-> key, val |-> val])
\* d[key] = val: a new key goes last, an existing key keeps its place
DictSet(d, key, val) ==
    IF DictHas(d, key)
    THEN [i \in 1..Len(d) |-> IF d[i].key = key THEN [key |-> key, val |-> val] ELSE d[i]]
    ELSE Append(d, [key |-> key, val |-> val])

RECURSIVE InsertDescUnstable(_, _, _)
\* as InsertDesc, but in front of the indices of equal key: not stable
InsertDescUnstable(s, x, keys) ==
    IF s = <<>> THEN <<x>>
    ELSE IF keys[Head(s)] > keys[x] THEN <<Head(s)>> \o InsertDescUnstable(Tail(s), x, keys)
    ELSE <<x>> \o s

RECURSIVE InsertDesc(_, _, _)
\* index x put into the sequence s of indices (descending by keys) behind every
\* index whose key is >= keys[x]
InsertDesc(s, x, keys) ==
    IF s = <<>> THEN <<x>>
    ELSE IF keys[Head(s)] >= keys[x] THEN <<Head(s)>> \o InsertDesc(Tail(s), x, keys)
    ELSE <<x>> \o s

RECURSIVE SortedReverseUpTo(_, _)
SortedReverseUpTo(keys, n) ==
    IF n = 0 THEN <<>> ELSE InsertDesc(SortedReverseUpTo(keys, n - 1), n, keys)

\* sorted(range(len(keys)), key=lambda i: keys[i], reverse=True), 1-based:
\* descending and stable (equal keys keep their original order)
SortedReverse(keys) == SortedReverseUpTo(keys, Len(keys))

\* the elements of s in the order idx names them
Pick(s, idx) == [i \in 1..Len(idx) |-> s[idx[i]]]

\* no truncation
TakeAll(s, n) == s
\* s[:n] for n >= 0
Take(s, n) == SubSeq(s, 1, IF n < Len(s) THEN n ELSE Len(s))

RECURSIVE SeqSum(_)
SeqSum(s) == IF s = <<>> THEN 0 ELSE Head(s) + SeqSum(Tail(s))

SeqOf(S, n) == UNION {[1..m -> S] : m \in 0..n}
Range(s) == {s[i] : i \in 1..Len(s)}

(***************************************************************************)
(* State.                                                                  *)
(***************************************************************************)
VARIABLES
    \* --- HybridRetriever (03_hybrid_retriever.py) ---
    documents,      \* self.documents: the corpus, a list of document texts
    h_top_k,        \* search(): top_k
    k_rrf,          \* search(): k_rrf
    failing,        \* the retrievers whose search raises on every call
    bm25_results,   \* search(): bm25_results, a list of (doc, score)
    dense_results,  \* search(): dense_results
    rrf_scores,     \* search(): rrf_scores when the loops have ended
    h_status,       \* "idle", "ready", "returned" or "raised"
    h_return,       \* what search() returned: a list of (doc, fused score)
    \* --- RAGFusionRetriever (04_langchain_RAGFusion.py) ---
    all_results,    \* _get_relevant_documents(): all_results, one list per query
    rf_k,           \* reciprocal_rank_fusion(): k
    fused_scores,   \* reciprocal_rank_fusion(): fused_scores at its end
    fused_docs,     \* what reciprocal_rank_fusion() returned: a list of docs
    rf_status,      \* "idle", "collecting", "returned" or "raised"
    \* --- SearchService (search_service.py) ---
    ner,            \* the entity extractor: whether self.ner_pipeline is set,
                    \* and what the model and the keyword rules do for the query
    released,       \* how many of self.vectorizer, self.milvus_service and
                    \* self.ner_service cleanup_resources has set to None
    cleanup_return, \* what cleanup_resources returned last: "none", "true", "false"
    build_args,     \* a direct call of _build_search_queries: its arguments
    build_return,   \* the same call: what it returned
    req,            \* per request: the locals of its search_icd_codes call
    \* --- the application (icd10-vectors-demo/app.py) ---
    search_service,      \* the global search_service: "instance" or "None"
    ner_service,         \* the global ner_service: "instance" or "None"
    cleanup_in_progress, \* the global flag
    cleanup_lock,        \* the frame that holds the lock, NoFrame when free
    stacks,              \* per thread: its call stack, the running frame last
    exiting,             \* a SystemExit is propagating up the main thread
    signals,             \* how many signals have been delivered
    cleanups             \* history: per service, the calls of its
                         \* cleanup_resources made by cleanup_all_resources

hybridVars == <<documents, h_top_k, k_rrf, failing, bm25_results, dense_results,
                rrf_scores, h_status, h_return>>
fusionVars == <<all_results, rf_k, fused_scores, fused_docs, rf_status>>
serviceVars == <<ner, released, cleanup_return, build_args, build_return>>
icdVars == <<serviceVars, req>>
appVars == <<search_service, ner_service, cleanup_in_progress, cleanup_lock, stacks,
             exiting, signals, cleanups>>
vars == <<hybridVars, fusionVars, icdVars, appVars>>

(***************************************************************************)
(* BM25Retriever.search and DenseEmbeddingRetriever.search.                *)
(* The scores come from the external models (rank_bm25, BGE-M3): one value *)
(* per corpus position, equal texts scoring equal.                         *)
(***************************************************************************)
BM25ScoreValues == {0, 1, 2}
SimilarityValues == {1, 2}

\* results of BM25Retriever.search(query, top_k) when bm25.get_scores gave scores
BM25Search(docs, scores, top_k) ==
    LET top_indices == Take(SortedReverse(scores), top_k)
        kept == SelectSeq(top_indices, LAMBDA i : scores[i] > 0)
    IN [j \in 1..Len(kept) |-> [doc |-> docs[kept[j]], score |-> scores[kept[j]]]]

\* np.argsort(similarities)[::-1]: the positions, best first; numpy's default
\* sort is not stable, so positions of equal similarity come in any order
ArgsortReversed(similarities) ==
    {p \in [1..Len(similarities) -> 1..Len(similarities)] :
        /\ \A i, j \in 1..Len(similarities) : i # j => p[i] # p[j]
        /\ \A i, j \in 1..Len(similarities) :
              i < j => similarities[p[i]] >= similarities[p[j]]}

\* results of DenseEmbeddingRetriever.search(query, top_k) for one such order
DenseSearch(docs, similarities, order, top_k) ==
    LET top_indices == Take(order, top_k)
    IN [j \in 1..Len(top_indices) |->
            [doc |-> docs[top_indices[j]], score |-> similarities[top_indices[j]]]]

(***************************************************************************)
(* HybridRetriever.search: reciprocal rank fusion of the two lists.        *)
(***************************************************************************)
\* 1 / (k_rrf + rank + 1), rank from 0, in units of 1/Unit(k_rrf)
RrfTermNoPlusOne(k, rank) == Unit(k) \div (IF k + rank = 0 THEN 1 ELSE k + rank)
RrfTerm(k, rank) == Unit(k) \div (k + rank + 1)

RECURSIVE RrfAccumulateOverwrite(_, _, _, _)
\* as RrfAccumulate, with "=" for "+="
RrfAccumulateOverwrite(scores, results, pos, k) ==
    IF pos > Len(results) THEN scores
    ELSE RrfAccumulateOverwrite(DictSet(scores, results[pos].doc, RrfTerm(k, pos - 1)),
                                results, pos + 1, k)

RECURSIVE RrfAccumulate(_, _, _, _)
\* "for rank, (doc, _) in enumerate(results)": positions pos.. of results
RrfAccumulate(scores, results, pos, k) ==
    IF pos > Len(results) THEN scores
    ELSE LET doc == results[pos].doc
             d0 == IF DictHas(scores, doc) THEN scores ELSE DictSet(scores, doc, 0)
             d1 == DictSet(d0, doc, DictGet(d0, doc) + RrfTerm(k, pos - 1))
         IN RrfAccumulate(d1, results, pos + 1, k)

DictVals(d) == [i \in 1..Len(d) |-> d[i].val]

\* step 2 of search(): rrf_scores after the BM25 loop and the dense loop
HybridRrfScores(bm25, dense, k) ==
    RrfAccumulate(RrfAccumulate(<<>>, bm25, 1, k), dense, 1, k)

\* step 3 of search(): sorted(rrf_scores.items(), ...)[:top_k]
HybridSorted(scores, top_k) ==
    LET sorted_docs == Pick(scores, SortedReverse(DictVals(scores)))
    IN Take(sorted_docs, top_k)

HybridTopKDefault == 3
HybridTopKs == {1, 2, HybridTopKDefault}

\* BM25Okapi cannot be built on an empty corpus (it divides by the corpus
\* size), so a HybridRetriever has at least one document
InitHybrid ==
    /\ documents \in SeqOf(Docs, MaxDocs) \ {<<>>}
    /\ h_top_k \in HybridTopKs
    /\ k_rrf \in KRrfValues
    /\ failing \in SUBSET {"bm25", "dense"}
    /\ bm25_results = <<>>
    /\ dense_results = <<>>
    /\ rrf_scores = <<>>
    /\ h_status = "ready"
    /\ h_return = <<>>

IdleHybrid ==
    /\ documents = <<"A">>
    /\ h_top_k = HybridTopKDefault
    /\ k_rrf = KRrfDefault
    /\ failing = {}
    /\ bm25_results = <<>>
    /\ dense_results = <<>>
    /\ rrf_scores = <<>>
    /\ h_status = "idle"
    /\ h_return = <<>>

\* HybridRetriever.search(query, top_k, k_rrf); an exception of a retriever
\* is not caught and leaves search()
HybridSearch ==
    /\ h_status = "ready"
    /\ UNCHANGED <<documents, h_top_k, k_rrf, failing, fusionVars, icdVars, appVars>>
    /\ IF "bm25" \in failing
       THEN /\ h_status' = "raised"
            /\ UNCHANGED <<bm25_results, dense_results, rrf_scores, h_return>>
       ELSE \E f \in [Range(documents) -> BM25ScoreValues] :
            LET scores == [i \in 1..Len(documents) |-> f[documents[i]]]
                bm == BM25Search(documents, scores, Len(documents))
            IN /\ bm25_results' = bm
               /\ IF "dense" \in failing
                  THEN /\ h_status' = "raised"
                       /\ UNCHANGED <<dense_results, rrf_scores, h_return>>
                  ELSE \E g \in [Range(documents) -> SimilarityValues] :
                       LET sims == [i \in 1..Len(documents) |-> g[documents[i]]]
                       IN \E order \in ArgsortReversed(sims) :
                          LET de == DenseSearch(documents, sims, order, Len(documents))
                          IN /\ dense_results' = de
                             /\ rrf_scores' = HybridRrfScores(bm, de, k_rrf)
                             /\ h_return' = HybridSorted(rrf_scores', h_top_k)
                             /\ h_status' = "returned"

\* search() calls bm25_retriever.search and dense_retriever.search one after
\* the other and waits for each: a retriever call that never completes
\* leaves search() waiting ("blocked")
HybridSearchNeverCompletes ==
    /\ h_status = "ready"
    /\ h_status' = "blocked"
    /\ UNCHANGED <<documents, h_top_k, k_rrf, failing, bm25_results, dense_results,
                   rrf_scores, h_return, fusionVars, icdVars, appVars>>

(***************************************************************************)
(* RAGFusionRetriever.reciprocal_rank_fusion(results, k).                  *)
(* A Document is identified by its page_content.                           *)
(***************************************************************************)
\* the most queries MultiQueryRetriever's result lists are collected for
QueryCounts == {0, 1, 2, 3}
MaxQueries == CHOOSE n \in QueryCounts : \A m \in QueryCounts : m <= n

\* 1 / (rank + k) in units of 1/Unit(k); Python raises ZeroDivisionError
\* when rank + k = 0
RagTerm(k, rank) == Unit(k) \div (rank + k)

RECURSIVE RagAccumulate(_, _, _, _)
\* "for rank, doc in enumerate(docs)": positions pos.. of docs
RagAccumulate(scores, docs, pos, k) ==
    IF pos > Len(docs) THEN scores
    ELSE LET doc_str == docs[pos]
             d0 == IF DictHas(scores, doc_str) THEN scores
                   ELSE DictSet(scores, doc_str, 0)
             d1 == DictSet(d0, doc_str, DictGet(d0, doc_str) + RagTerm(k, pos - 1))
         IN RagAccumulate(d1, docs, pos + 1, k)

RECURSIVE RagAccumulateAll(_, _, _, _)
\* "for docs in results": lists n.. of results
RagAccumulateAll(scores, results, n, k) ==
    IF n > Len(results) THEN scores
    ELSE RagAccumulateAll(RagAccumulate(scores, results[n], 1, k), results, n + 1, k)

\* rank + k = 0 is reached: k = 0 and some list has a first document
RagDividesByZero(results, k) ==
    \E n \in 1..Len(results) : \E r \in 1..Len(results[n]) : (r - 1) + k = 0

\* fused_scores when the function reaches its sort
RagFusedScores(results, k) == RagAccumulateAll(<<>>, results, 1, k)

\* the returned list: the docs by descending fused score
RagSorted(scores) ==
    LET sorted_results == Pick(scores, SortedReverse(DictVals(scores)))
    IN [i \in 1..Len(sorted_results) |-> sorted_results[i].key]

TotalLen(results) == SeqSum([n \in 1..Len(results) |-> Len(results[n])])

InitFusion ==
    /\ all_results = <<>>
    /\ rf_k \in KRrfValues
    /\ fused_scores = <<>>
    /\ fused_docs = <<>>
    /\ rf_status = "collecting"

IdleFusion ==
    /\ all_results = <<>>
    /\ rf_k = KRrfDefault
    /\ fused_scores = <<>>
    /\ fused_docs = <<>>
    /\ rf_status = "idle"

\* _get_relevant_documents(): one query's documents are appended to all_results
RagRetrieve ==
    /\ rf_status = "collecting"
    /\ Len(all_results) < MaxQueries
    /\ \E docs \in SeqOf(Docs, Min2(RetrieverK, MaxTotal - TotalLen(all_results))) :
          all_results' = Append(all_results, docs)
    /\ UNCHANGED <<rf_k, fused_scores, fused_docs, rf_status, hybridVars, icdVars, appVars>>

\* reciprocal_rank_fusion(all_results, k=rf_k)
RagFuse ==
    /\ rf_status = "collecting"
    /\ IF RagDividesByZero(all_results, rf_k)
       THEN /\ rf_status' = "raised"
            /\ UNCHANGED <<fused_scores, fused_docs>>
       ELSE /\ fused_scores' = RagFusedScores(all_results, rf_k)
            /\ fused_docs' = RagSorted(fused_scores')
            /\ rf_status' = "returned"
    /\ UNCHANGED <<all_results, rf_k, hybridVars, icdVars, appVars>>

(***************************************************************************)
(* SearchService.search_icd_codes (icd10-vectors-demo/search_service.py).  *)
(* One SearchService object serves every request; a request is a call of   *)
(* search_icd_codes and keeps its variables (the function's locals) in     *)
(* req[r].  A request can be suspended at each call of the vector backend. *)
(***************************************************************************)
Requests == {1, 2}
Other(r) == IF r = 1 THEN 2 ELSE 1

\* the argument value None
None == -1
\* SEARCH_CONFIG: default_top_k, score_threshold (0.7, in units of 1e-5)
DefaultTopK == 10
DefaultScoreThreshold == 70000

Codes == {"A", "B"}
\* raw inner-product scores, in units of 1e-5: 0.5, 0.8, 1.0
ScoreValues == {50000, 80000, 100000}
QueryTexts == {"", " ", "q"}
TopKArgs == {None, 1, 2}
\* an explicit threshold below the default lets the score 0.5 through
ThresholdArgs == {None, 40000}

\* what MedicalNERService.extract_entities can return for the query
Entity(t, l) == [text |-> t, label |-> l]
EntityLists ==
    { <<>>,
      <<Entity("d", "DISEASE")>>,
      <<Entity("s", "SYMPTOM")>>,
      <<Entity("d", "DISEASE"), Entity("s", "SYMPTOM")>>,
      <<Entity("b", "BODY_PART")>> }

\* what one extraction method does for the query: it raises, or it returns
\* its entities
Raises == [ok |-> FALSE, entities |-> <<>>]
Returns(entities) == [ok |-> TRUE, entities |-> entities]
\* the keyword rules find keywords of medical_keywords only
RuleEntityLists == { <<>>, <<Entity("d", "DISEASE")>> }
\* the extractor: ner_pipeline loaded or not (_load_model), the outcome of
\* _extract_with_model and of _extract_with_rules; a method that cannot be
\* reached is given one outcome only
NerBehaviours ==
    {[pipeline |-> TRUE, model |-> Returns(e), rules |-> Raises] : e \in EntityLists}
    \cup {[pipeline |-> TRUE, model |-> Raises, rules |-> Returns(e)] : e \in RuleEntityLists}
    \cup {[pipeline |-> FALSE, model |-> Raises, rules |-> Returns(e)] : e \in RuleEntityLists}
    \cup {[pipeline |-> p, model |-> Raises, rules |-> Raises] : p \in BOOLEAN}
\* the extractor of a request that does not consult it: it would find an
\* entity in the query if it were asked
NerUnused == [pipeline |-> FALSE, model |-> Raises,
              rules |-> Returns(<<Entity("d", "DISEASE")>>)]

\* _extract_with_rules inside extract_entities' try: an exception ends in
\* extract_entities' except, which returns []
ExtractWithRules(n) == IF n.rules.ok THEN n.rules.entities ELSE <<>>
\* _extract_with_model: its except falls back to the rules
ExtractWithModel(n) == IF n.model.ok THEN n.model.entities ELSE ExtractWithRules(n)
\* the extractor whose model failure returns [] at once
ExtractEntitiesNoFallback(text, n) ==
    IF text \in {"", " "} THEN <<>>
    ELSE IF n.pipeline THEN (IF n.model.ok THEN n.model.entities ELSE <<>>)
    ELSE ExtractWithRules(n)
\* MedicalNERService.extract_entities
ExtractEntities(text, n) ==
    IF text \in {"", " "} THEN <<>>
    ELSE IF n.pipeline THEN ExtractWithModel(n)
    ELSE ExtractWithRules(n)

\* 'disease' in label.lower(), 'symptom' in label.lower()
LabelHasDisease(label) == label = "DISEASE"
LabelHasSymptom(label) == label = "SYMPTOM"

\* a check that lets a whitespace-only text through
IsBlankEmptyOnly(text) == text = ""
\* not text or not text.strip()
IsBlank(text) == text \in {"", " "}

\* `arg or default`: None and 0 (0.0) are both false
OrDefault(arg, default) == IF arg = None \/ arg = 0 THEN default ELSE arg

\* ' '.join(e['text'] for e in es): the joined text is kept as the sequence
\* of its parts
JoinTexts(es) == [i \in 1..Len(es) |-> es[i].text]
\* no check of the joined text
JoinedAny(parts) == TRUE
\* entity_text.strip() is non-empty
JoinedNonBlank(parts) == \E i \in 1..Len(parts) : ~IsBlank(parts[i])

EntityType(i) == <<"entity_0", "entity_1">>[i + 1]

\* a builder that replaces the original query by the entity query
BuildSearchQueriesNoOriginal(original_text, entities, use_ner) ==
    IF use_ner /\ entities # <<>>
    THEN <<[text |-> JoinTexts(entities), weight |-> 8, type |-> "entity_0"]>>
    ELSE <<[text |-> <<original_text>>, weight |-> 10, type |-> "original"]>>
\* _build_search_queries; weights in tenths (1.0, then 0.8 - i * 0.1)
BuildSearchQueries(original_text, entities, use_ner) ==
    LET original == [text |-> <<original_text>>, weight |-> 10, type |-> "original"]
        disease_entities ==
            SelectSeq(entities, LAMBDA e : LabelHasDisease(e.label) \/ LabelHasSymptom(e.label))
        symptom_entities == SelectSeq(entities, LAMBDA e : LabelHasSymptom(e.label))
        entity_texts ==
            (IF disease_entities # <<>> THEN <<JoinTexts(disease_entities)>> ELSE <<>>)
            \o (IF symptom_entities # <<>> THEN <<JoinTexts(symptom_entities)>> ELSE <<>>)
        made == [i \in 1..Len(entity_texts) |->
                    [text |-> entity_texts[i], weight |-> 8 - (i - 1),
                     type |-> EntityType(i - 1)]]
    IN IF use_ner /\ entities # <<>>
       THEN <<original>> \o SelectSeq(made, LAMBDA q : JoinedNonBlank(q.text))
       ELSE <<original>>

\* a hit of the backend: the entity's disease_code and its score
HitValues == [disease_code : Codes, score : ScoreValues]
\* Milvus returns the hits of one query by descending score
HitLists(n) ==
    {h \in SeqOf(HitValues, n) : \A i \in 1..(Len(h) - 1) : h[i].score >= h[i + 1].score}

\* what one call of vectorizer.encode + milvus_service.search_vectors does:
\* it fails (an exception, or search_vectors' own [] after an error), or it
\* answers with the hits of the query
FailedCall == [ok |-> FALSE, hits |-> <<>>]
\* a call that raises after Milvus has answered, while the hits are processed
FailedAfterHits == [ok |-> FALSE, hits |-> <<[disease_code |-> "A", score |-> 100000]>>]
FailedCalls == {FailedCall, FailedAfterHits}
Answer(h) == [ok |-> TRUE, hits |-> h]

\* processed_results of _execute_vector_search: the hits at or above the
\* threshold, weighted (weighted score in units of 1e-6)
ProcessedUnweighted(hits, weight, score_threshold) ==
    LET kept == SelectSeq(hits, LAMBDA h : h.score >= score_threshold)
    IN [i \in 1..Len(kept) |->
           [weighted_score |-> kept[i].score * 10, original_score |-> kept[i].score,
            query_weight |-> weight, disease_code |-> kept[i].disease_code]]
\* as Processed, without the threshold
ProcessedIgnoresThreshold(hits, weight, score_threshold) ==
    [i \in 1..Len(hits) |->
        [weighted_score |-> hits[i].score * weight, original_score |-> hits[i].score,
         query_weight |-> weight, disease_code |-> hits[i].disease_code]]
Processed(hits, weight, score_threshold) ==
    LET kept == SelectSeq(hits, LAMBDA h : h.score >= score_threshold)
    IN [i \in 1..Len(kept) |->
           [weighted_score |-> kept[i].score * weight, original_score |-> kept[i].score,
            query_weight |-> weight, disease_code |-> kept[i].disease_code]]

\* an except that returns what was processed before the exception
ExecuteVectorSearchKeepsHits(outcome, weight, score_threshold) ==
    [i \in 1..Len(outcome.hits) |->
        [weighted_score |-> outcome.hits[i].score * weight,
         original_score |-> outcome.hits[i].score,
         query_weight |-> weight, disease_code |-> outcome.hits[i].disease_code]]
\* _execute_vector_search: any exception gives []
ExecuteVectorSearch(outcome, weight, score_threshold) ==
    IF outcome.ok THEN Processed(outcome.hits, weight, score_threshold) ELSE <<>>

RECURSIVE MergeUniqueLastWins(_, _, _)
\* as MergeUnique, without the comparison: the last result of a code is kept
MergeUniqueLastWins(unique_results, results, pos) ==
    IF pos > Len(results) THEN unique_results
    ELSE MergeUniqueLastWins(DictSet(unique_results, results[pos].disease_code, results[pos]),
                             results, pos + 1)

RECURSIVE MergeUniqueLaterOnTies(_, _, _)
\* as MergeUnique, with ">=" for ">": on equal weighted scores the later
\* result replaces the earlier one
MergeUniqueLaterOnTies(unique_results, results, pos) ==
    IF pos > Len(results) THEN unique_results
    ELSE LET result == results[pos]
             code == result.disease_code
             u == IF ~DictHas(unique_results, code)
                     \/ result.weighted_score >= DictGet(unique_results, code).weighted_score
                  THEN DictSet(unique_results, code, result)
                  ELSE unique_results
         IN MergeUniqueLaterOnTies(u, results, pos + 1)

RECURSIVE MergeUnique(_, _, _)
\* "for result in all_results": unique_results keeps, per disease_code, the
\* first result of the highest weighted_score
MergeUnique(unique_results, results, pos) ==
    IF pos > Len(results) THEN unique_results
    ELSE LET result == results[pos]
             code == result.disease_code
             u == IF ~DictHas(unique_results, code)
                     \/ result.weighted_score > DictGet(unique_results, code).weighted_score
                  THEN DictSet(unique_results, code, result)
                  ELSE unique_results
         IN MergeUnique(u, results, pos + 1)

\* the merge without the sort
MergeAndRankResultsUnsorted(results, top_k) ==
    IF results = <<>> THEN <<>>
    ELSE LET all == [i \in 1..Len(results) |-> results[Len(results) + 1 - i]]
         IN SubSeq(all, 1, IF top_k < Len(all) THEN top_k ELSE Len(all))
\* _merge_and_rank_results
MergeAndRankResults(results, top_k) ==
    IF results = <<>> THEN <<>>
    ELSE LET unique_results == MergeUnique(<<>>, results, 1)
             values == DictVals(unique_results)
             sorted_results ==
                 Pick(values, SortedReverse([i \in 1..Len(values) |-> values[i].weighted_score]))
         IN Take(sorted_results, top_k)

\* round(x, 4) of a raw score (units of 1e-5) and of a weighted score (1e-6)
Round4Raw(x) == ((x + 5) \div 10) * 10
Round4Weighted(x) == ((x + 50) \div 100) * 100

\* _format_search_results: formatted_results
FormattedResults(results) ==
    [i \in 1..Len(results) |->
        [rank |-> i,
         disease_code |-> results[i].disease_code,
         similarity_score |-> Round4Raw(results[i].original_score),
         weighted_score |-> Round4Weighted(results[i].weighted_score)]]

\* _format_search_results; best_match is kept as a list of at most one
\* entry, the empty list standing for None
FormatSearchResults(results) ==
    [success |-> TRUE,
     error |-> "",
     results |-> FormattedResults(results),
     best_match |-> Take(FormattedResults(results), 1),
     has_results |-> Len(FormattedResults(results)) > 0]

\* _empty_result
EmptyResult(message) ==
    [success |-> FALSE, error |-> message, results |-> <<>>,
     best_match |-> <<>>, has_results |-> FALSE]

NoResult == [success |-> FALSE, error |-> "pending", results |-> <<>>,
             best_match |-> <<>>, has_results |-> FALSE]

\* the locals of a call that has not started: its arguments
NewRequest(query_text, top_k, score_threshold, use_ner) ==
    [pc |-> "start",
     query_text |-> query_text, top_k_arg |-> top_k,
     score_threshold_arg |-> score_threshold, use_ner |-> use_ner,
     top_k |-> None, score_threshold |-> None,
     entities |-> <<>>, search_queries |-> <<>>, qi |-> 0,
     all_results |-> <<>>, final_results |-> <<>>, result |-> NoResult,
     \* history, not read by the program: the backend's answers to this
     \* request, and whether it ran a vector search while the other request
     \* was between two of its own
     answers |-> <<>>, overlapped |-> FALSE,
     \* history: the methods the call has invoked
     calls |-> {}]

\* a request that is never made
UnusedRequest == [NewRequest("", None, None, FALSE) EXCEPT !.pc = "unused"]

RequestInputs ==
    {NewRequest(q, k, t, n) : q \in QueryTexts, k \in TopKArgs, t \in ThresholdArgs,
                              n \in BOOLEAN}

\* the service as __init__ leaves it, and no direct call of
\* _build_search_queries
NoBuildArgs == [original_text |-> "", entities |-> <<>>, use_ner |-> FALSE]
InitService ==
    /\ released = 0
    /\ cleanup_return = "none"
    /\ build_args = NoBuildArgs
    /\ build_return = <<>>

\* the extractors a request can meet: one that it does not consult (no
\* use_ner, or a blank query) is left unspecified
NerFor(input) ==
    IF input.use_ner /\ ~IsBlank(input.query_text) THEN NerBehaviours ELSE {NerUnused}

\* one request
InitIcd ==
    /\ InitService
    /\ \E input \in RequestInputs :
          /\ ner \in NerFor(input)
          /\ req = [r \in Requests |-> IF r = 1 THEN input ELSE UnusedRequest]

\* two requests with the same arguments, made of the same service object
InitConcurrent ==
    /\ InitService
    /\ \E q \in QueryTexts, k \in {None, 1}, n \in BOOLEAN :
          /\ ner \in {b \in NerFor(NewRequest(q, k, None, n)) :
                        /\ b.pipeline
                        /\ b.model.ok => (b.model.entities = <<>>
                                            \/ b.model.entities[1].label = "DISEASE")}
          /\ req = [r \in Requests |-> NewRequest(q, k, None, n)]

IdleIcd ==
    /\ InitService
    /\ ner = NerUnused
    /\ req = [r \in Requests |-> UnusedRequest]

\* self.ner_service, self.vectorizer and self.milvus_service are None once
\* cleanup_resources has released them, in this order: vectorizer,
\* milvus_service, ner_service
Components == <<"vectorizer", "milvus_service", "ner_service">>
IsReleased(component) == \E i \in 1..released : Components[i] = component

\* search_icd_codes, "entities = []" and "if use_ner: entities = ..."; the
\* first variant asks the extractor whatever use_ner says
EntitiesOfAlways(use_ner, query_text, n) == ExtractEntities(query_text, n)
EntitiesOf(use_ner, query_text, n) ==
    IF use_ner THEN ExtractEntities(query_text, n) ELSE <<>>

\* search_icd_codes up to its first vector search: validation, defaults,
\* entity extraction, _build_search_queries
IcdBegin(r) ==
    /\ req[r].pc = "start"
    /\ LET me == req[r]
           entities == EntitiesOf(me.use_ner, me.query_text, ner)
       IN req' = [req EXCEPT ![r] =
            IF IsBlank(me.query_text)
            THEN [me EXCEPT !.pc = "done", !.result = EmptyResult("empty query")]
            ELSE IF me.use_ner /\ IsReleased("ner_service")
            \* None.extract_entities: AttributeError, caught by the except
            \* of search_icd_codes
            THEN [me EXCEPT
                    !.pc = "done",
                    !.top_k = OrDefault(me.top_k_arg, DefaultTopK),
                    !.score_threshold = OrDefault(me.score_threshold_arg, DefaultScoreThreshold),
                    !.result = EmptyResult("search error")]
            ELSE [me EXCEPT
                    !.pc = "search",
                    !.top_k = OrDefault(me.top_k_arg, DefaultTopK),
                    !.score_threshold = OrDefault(me.score_threshold_arg, DefaultScoreThreshold),
                    !.entities = entities,
                    !.search_queries = BuildSearchQueries(me.query_text, entities, me.use_ner),
                    !.qi = 1,
                    !.calls = (IF me.use_ner THEN {"extract_entities"} ELSE {})
                              \cup {"_build_search_queries"}]]
    /\ UNCHANGED <<serviceVars, hybridVars, fusionVars, appVars>>

\* the hits request r has been sent so far
HitsReceived(r) == SeqSum([j \in 1..Len(req[r].answers) |-> Len(req[r].answers[j].hits)])

\* the answers the backend can give to the next vector search of request r:
\* at most top_k * 2 hits (the limit asked for); the index does not change
\* between two requests, so a call that the other request has made with the
\* same sub-queries and limit is answered alike
BackendAnswers(r) ==
    LET me == req[r]
        other == req[Other(r)]
    IN IF IsReleased("vectorizer")
       \* None.encode, None.search_vectors: AttributeError, caught by the
       \* except of _execute_vector_search
       THEN {FailedCall}
       ELSE IF /\ other.search_queries = me.search_queries
               /\ other.top_k = me.top_k
               /\ Len(other.answers) >= me.qi
       THEN {other.answers[me.qi]}
       ELSE FailedCalls
            \cup {Answer(h) : h \in HitLists(Min2(me.top_k * 2, MaxHits - HitsReceived(r)))}

\* request r is between two of its vector searches
InFlight(r) == req[r].pc = "search" /\ req[r].qi > 1

\* all_results.extend(results), all_results a local of the call
SharedExtend(r, processed) == req[Other(r)].all_results \o req[r].all_results \o processed
Extend(r, processed) == req[r].all_results \o processed

\* one pass of "for query_info in search_queries"; after the last one, the
\* merge, the formatting and the return
IcdSearch(r) ==
    /\ req[r].pc = "search"
    /\ \E outcome \in BackendAnswers(r) :
         LET me == req[r]
             query_info == me.search_queries[me.qi]
             results == ExecuteVectorSearch(outcome, query_info.weight, me.score_threshold)
             extended == Extend(r, results)
             final_results == MergeAndRankResults(extended, me.top_k)
         IN req' = [req EXCEPT ![r] =
              IF me.qi < Len(me.search_queries)
              THEN [me EXCEPT !.all_results = extended,
                              !.answers = Append(me.answers, outcome),
                              !.overlapped = me.overlapped \/ InFlight(Other(r)),
                              !.calls = me.calls \cup {"_execute_vector_search"},
                              !.qi = me.qi + 1]
              ELSE [me EXCEPT !.all_results = extended,
                              !.answers = Append(me.answers, outcome),
                              !.overlapped = me.overlapped \/ InFlight(Other(r)),
                              !.calls = me.calls \cup {"_execute_vector_search",
                                                       "_merge_and_rank_results",
                                                       "_format_search_results"},
                              !.pc = "done",
                              !.final_results = final_results,
                              !.result = FormatSearchResults(final_results)]]
    /\ UNCHANGED <<serviceVars, hybridVars, fusionVars, appVars>>

\* _execute_vector_search calls vectorizer.encode and
\* milvus_service.search_vectors and waits for them, without a timeout: a
\* backend call that never completes leaves the request waiting ("blocked")
IcdSearchNeverCompletes(r) ==
    /\ req[r].pc = "search"
    /\ req' = [req EXCEPT ![r].pc = "blocked"]
    /\ UNCHANGED <<serviceVars, hybridVars, fusionVars, appVars>>

\* one block of cleanup_resources: the next component that is not None is
\* cleaned up and set to None; after the last block the method returns True
CleanupRelease ==
    /\ \E r \in Requests : req[r].pc # "unused"
    /\ released < Len(Components)
    /\ released' = released + 1
    /\ cleanup_return' = IF released' = Len(Components) THEN "true" ELSE "none"
    /\ UNCHANGED <<ner, build_args, build_return, req, hybridVars, fusionVars, appVars>>

\* the component's own cleanup_resources raises: the except of
\* cleanup_resources returns False and the component stays set
CleanupRaise ==
    /\ \E r \in Requests : req[r].pc # "unused"
    /\ released < Len(Components)
    /\ cleanup_return # "false"
    /\ cleanup_return' = "false"
    /\ UNCHANGED <<ner, released, build_args, build_return, req, hybridVars, fusionVars, appVars>>

\* a direct call of _build_search_queries
BuildTexts == {"", " ", "q"}
BuildEntityValues == {Entity(t, l) : t \in {"d", " "}, l \in {"DISEASE", "SYMPTOM", "BODY_PART"}}
MaxEntities == 2
BuildQueries ==
    /\ build_return = <<>>
    /\ \E t \in BuildTexts, e \in SeqOf(BuildEntityValues, MaxEntities), n \in BOOLEAN :
          /\ build_args' = [original_text |-> t, entities |-> e, use_ner |-> n]
          /\ build_return' = BuildSearchQueries(t, e, n)
    /\ UNCHANGED <<ner, released, cleanup_return, req, hybridVars, fusionVars, appVars>>

(***************************************************************************)
(* The application (icd10-vectors-demo/app.py): cleanup_all_resources,     *)
(* signal_handler, the atexit hook and main().  A thread is its call       *)
(* stack; a signal handler runs on the main thread, on top of the frame it *)
(* interrupted, which resumes when the handler returns.                    *)
(***************************************************************************)
Threads == {"main", "worker"}
\* the signals delivered to the process
MaxSignals == 2

Frame(fn, pc) == [fn |-> fn, pc |-> pc]
\* cleanup_lock when no frame holds it
NoFrame == <<"none", 0>>
Top(t) == stacks[t][Len(stacks[t])]
TopId(t) == <<t, Len(stacks[t])>>
\* the running frame of t moves to pc
Goto(t, pc) == [stacks EXCEPT ![t] = [@ EXCEPT ![Len(@)].pc = pc]]
\* the running frame of t returns, or is left by an exception
Return(t) == [stacks EXCEPT ![t] = SubSeq(@, 1, Len(@) - 1)]
\* the running frame of t calls cleanup_all_resources and will go on at pc
CallCleanup(t, pc) ==
    [stacks EXCEPT ![t] = Append([@ EXCEPT ![Len(@)].pc = pc], Frame("cleanup", "acquire"))]
\* thread t runs the frame fn at pc (a propagating SystemExit runs no frame)
At(t, fn, pc) ==
    /\ stacks[t] # <<>>
    /\ t = "main" => ~exiting
    /\ Top(t).fn = fn /\ Top(t).pc = pc
\* the main thread is unwinding and the exception reaches frame fn at one
\* of pcs
Unwinds(fn, pcs) ==
    /\ exiting /\ stacks["main"] # <<>>
    /\ Top("main").fn = fn /\ Top("main").pc \in pcs

\* initialize_services has set both globals; main() is in demo.launch(),
\* with the handlers and the atexit hook installed; another thread is about
\* to call cleanup_all_resources
InitApp ==
    /\ search_service = "instance"
    /\ ner_service = "instance"
    /\ cleanup_in_progress = FALSE
    /\ cleanup_lock = NoFrame
    /\ stacks = [t \in Threads |->
                    IF t = "main" THEN <<Frame("main", "launch")>>
                    ELSE <<Frame("thread", "start")>>]
    /\ exiting = FALSE
    /\ signals = 0
    /\ cleanups = [s \in {"search_service", "ner_service"} |-> 0]

\* the application is not run
IdleApp ==
    /\ search_service = "None"
    /\ ner_service = "None"
    /\ cleanup_in_progress = FALSE
    /\ cleanup_lock = NoFrame
    /\ stacks = [t \in Threads |-> <<>>]
    /\ exiting = FALSE
    /\ signals = 0
    /\ cleanups = [s \in {"search_service", "ner_service"} |-> 0]

\* cleanup_all_resources, "with cleanup_lock:": threading.Lock is not
\* reentrant, the frame waits until no frame holds the lock
CleanupAcquire(t) ==
    /\ At(t, "cleanup", "acquire")
    /\ cleanup_lock = NoFrame
    /\ cleanup_lock' = TopId(t)
    /\ stacks' = Goto(t, "locked")
    /\ UNCHANGED <<search_service, ner_service, cleanup_in_progress, exiting, signals,
                   cleanups, hybridVars, fusionVars, icdVars>>

\* "if cleanup_in_progress: return" (the with block releases the lock), else
\* "cleanup_in_progress = True"
CleanupCheck(t) ==
    /\ At(t, "cleanup", "locked")
    /\ IF cleanup_in_progress
       THEN /\ cleanup_lock' = NoFrame
            /\ stacks' = Return(t)
            /\ UNCHANGED cleanup_in_progress
       ELSE /\ cleanup_in_progress' = TRUE
            /\ stacks' = Goto(t, "flagged")
            /\ UNCHANGED cleanup_lock
    /\ UNCHANGED <<search_service, ner_service, exiting, signals, cleanups,
                   hybridVars, fusionVars, icdVars>>

\* the end of the with block
CleanupUnlock(t) ==
    /\ At(t, "cleanup", "flagged")
    /\ cleanup_lock' = NoFrame
    /\ stacks' = Goto(t, "search")
    /\ UNCHANGED <<search_service, ner_service, cleanup_in_progress, exiting, signals,
                   cleanups, hybridVars, fusionVars, icdVars>>

\* "if search_service is not None": search_service.cleanup_resources() is
\* called
CleanupSearchService(t) ==
    /\ At(t, "cleanup", "search")
    /\ IF search_service # "None"
       THEN /\ cleanups' = [cleanups EXCEPT !["search_service"] = @ + 1]
            /\ stacks' = Goto(t, "in_search")
       ELSE /\ stacks' = Goto(t, "ner")
            /\ UNCHANGED cleanups
    /\ UNCHANGED <<search_service, ner_service, cleanup_in_progress, cleanup_lock, exiting,
                   signals, hybridVars, fusionVars, icdVars>>

\* search_service.cleanup_resources() returns; "search_service = None"
CleanupSearchServiceDone(t) ==
    /\ At(t, "cleanup", "in_search")
    /\ search_service' = "None"
    /\ stacks' = Goto(t, "ner")
    /\ UNCHANGED <<ner_service, cleanup_in_progress, cleanup_lock, exiting, signals,
                   cleanups, hybridVars, fusionVars, icdVars>>

\* "if ner_service is not None": ner_service.cleanup_resources() is called
CleanupNerService(t) ==
    /\ At(t, "cleanup", "ner")
    /\ IF ner_service # "None"
       THEN /\ cleanups' = [cleanups EXCEPT !["ner_service"] = @ + 1]
            /\ stacks' = Goto(t, "in_ner")
       ELSE /\ stacks' = Goto(t, "finally")
            /\ UNCHANGED cleanups
    /\ UNCHANGED <<search_service, ner_service, cleanup_in_progress, cleanup_lock, exiting,
                   signals, hybridVars, fusionVars, icdVars>>

\* ner_service.cleanup_resources() returns; "ner_service = None"
CleanupNerServiceDone(t) ==
    /\ At(t, "cleanup", "in_ner")
    /\ ner_service' = "None"
    /\ stacks' = Goto(t, "finally")
    /\ UNCHANGED <<search_service, cleanup_in_progress, cleanup_lock, exiting, signals,
                   cleanups, hybridVars, fusionVars, icdVars>>

\* "finally: cleanup_in_progress = False", and the return
CleanupFinally(t) ==
    /\ At(t, "cleanup", "finally")
    /\ cleanup_in_progress' = FALSE
    /\ stacks' = Return(t)
    /\ UNCHANGED <<search_service, ner_service, cleanup_lock, exiting, signals, cleanups,
                   hybridVars, fusionVars, icdVars>>

\* a SIGINT or SIGTERM arrives: signal_handler starts on the main thread,
\* between two instructions of whatever frame runs there
Signal ==
    /\ signals < MaxSignals
    /\ stacks["main"] # <<>>
    /\ stacks["main"][1].pc # "exited"
    /\ ~exiting
    /\ signals' = signals + 1
    /\ stacks' = [stacks EXCEPT !["main"] = Append(@, Frame("handler", "cleanup"))]
    /\ UNCHANGED <<search_service, ner_service, cleanup_in_progress, cleanup_lock, exiting,
                   cleanups, hybridVars, fusionVars, icdVars>>

\* signal_handler: cleanup_all_resources()
SignalHandlerCleanup ==
    /\ At("main", "handler", "cleanup")
    /\ stacks' = CallCleanup("main", "exit")
    /\ UNCHANGED <<search_service, ner_service, cleanup_in_progress, cleanup_lock, exiting,
                   signals, cleanups, hybridVars, fusionVars, icdVars>>

\* signal_handler: time.sleep(2); sys.exit(0) raises SystemExit
SignalHandlerExit ==
    /\ At("main", "handler", "exit")
    /\ exiting' = TRUE
    /\ stacks' = Return("main")
    /\ UNCHANGED <<search_service, ner_service, cleanup_in_progress, cleanup_lock, signals,
                   cleanups, hybridVars, fusionVars, icdVars>>

\* SystemExit leaves a frame of cleanup_all_resources: a frame that waits
\* for the lock or stands before the assignment of its finally clause is
\* just left; inside the with block the lock is released; inside the try
\* block "except Exception" does not catch it and the finally clause runs
UnwindCleanup ==
    /\ Unwinds("cleanup", {"acquire", "locked", "flagged", "search", "in_search", "ner",
                           "in_ner", "finally"})
    /\ cleanup_lock' = IF Top("main").pc \in {"locked", "flagged"} THEN NoFrame
                       ELSE cleanup_lock
    /\ cleanup_in_progress' =
          IF Top("main").pc \in {"search", "in_search", "ner", "in_ner"} THEN FALSE
          ELSE cleanup_in_progress
    /\ stacks' = Return("main")
    /\ UNCHANGED <<search_service, ner_service, exiting, signals, cleanups,
                   hybridVars, fusionVars, icdVars>>

\* SystemExit leaves an interrupted signal_handler
UnwindHandler ==
    /\ Unwinds("handler", {"cleanup", "exit"})
    /\ stacks' = Return("main")
    /\ UNCHANGED <<search_service, ner_service, cleanup_in_progress, cleanup_lock, exiting,
                   signals, cleanups, hybridVars, fusionVars, icdVars>>

\* SystemExit reaches main(): inside the try statement its finally clause
\* calls cleanup_all_resources; from the finally clause the exception
\* leaves main() and the interpreter runs the atexit hook; an exception of
\* the atexit hook ends the hook
UnwindMain ==
    /\ Unwinds("main", {"launch", "except", "finally", "atexit"})
    /\ exiting' = FALSE
    /\ stacks' = IF Top("main").pc \in {"launch", "except"} THEN CallCleanup("main", "finally")
                 ELSE IF Top("main").pc = "finally" THEN CallCleanup("main", "atexit")
                 ELSE Goto("main", "exited")
    /\ UNCHANGED <<search_service, ner_service, cleanup_in_progress, cleanup_lock, signals,
                   cleanups, hybridVars, fusionVars, icdVars>>

\* main(): demo.launch() returns and the finally clause calls
\* cleanup_all_resources, or it raises and the except clause does
MainLaunchEnds ==
    /\ At("main", "main", "launch")
    /\ \E pc \in {"except", "finally"} : stacks' = CallCleanup("main", pc)
    /\ UNCHANGED <<search_service, ner_service, cleanup_in_progress, cleanup_lock, exiting,
                   signals, cleanups, hybridVars, fusionVars, icdVars>>

\* main(): after the except clause the finally clause; after the finally
\* clause the interpreter exits and runs the atexit hook; then the process
\* ends
MainGoesOn ==
    /\ \E pc \in {"except", "finally", "atexit"} :
          /\ At("main", "main", pc)
          /\ stacks' = IF pc = "except" THEN CallCleanup("main", "finally")
                       ELSE IF pc = "finally" THEN CallCleanup("main", "atexit")
                       ELSE Goto("main", "exited")
    /\ UNCHANGED <<search_service, ner_service, cleanup_in_progress, cleanup_lock, exiting,
                   signals, cleanups, hybridVars, fusionVars, icdVars>>

\* another thread calls cleanup_all_resources (graceful_shutdown), and ends
\* when it has returned
WorkerStep ==
    /\ \/ /\ At("worker", "thread", "start")
          /\ stacks' = CallCleanup("worker", "called")
       \/ /\ At("worker", "thread", "called")
          /\ stacks' = Goto("worker", "exited")
    /\ UNCHANGED <<search_service, ner_service, cleanup_in_progress, cleanup_lock, exiting,
                   signals, cleanups, hybridVars, fusionVars, icdVars>>

\* a step of cleanup_all_resources in thread t
CleanupStep(t) ==
    \/ CleanupAcquire(t) \/ CleanupCheck(t) \/ CleanupUnlock(t)
    \/ CleanupSearchService(t) \/ CleanupSearchServiceDone(t)
    \/ CleanupNerService(t) \/ CleanupNerServiceDone(t)
    \/ CleanupFinally(t)
\* what the main thread and the other thread do by themselves
MainStep ==
    \/ CleanupStep("main") \/ SignalHandlerCleanup \/ SignalHandlerExit
    \/ UnwindCleanup \/ UnwindHandler \/ UnwindMain \/ MainLaunchEnds \/ MainGoesOn
OtherStep == CleanupStep("worker") \/ WorkerStep

Init ==
    \/ InitHybrid /\ IdleFusion /\ IdleIcd /\ IdleApp
    \/ IdleHybrid /\ InitFusion /\ IdleIcd /\ IdleApp
    \/ IdleHybrid /\ IdleFusion /\ InitIcd /\ IdleApp
NextIcd == \E r \in Requests : IcdBegin(r) \/ IcdSearch(r)
Next == HybridSearch \/ RagRetrieve \/ RagFuse \/ NextIcd
Spec == Init /\ [][Next]_vars

\* one request of search_icd_codes on its own
InitOneCall == IdleHybrid /\ IdleFusion /\ InitIcd /\ IdleApp
SpecIcd == InitOneCall /\ [][NextIcd]_vars

\* two interleaved requests
InitTwoCalls == IdleHybrid /\ IdleFusion /\ InitConcurrent /\ IdleApp
SpecConcurrent == InitTwoCalls /\ [][NextIcd]_vars

\* one request and a cleanup_resources call of the same service object, at
\* any moment of the request
InitCleanup ==
    /\ IdleHybrid /\ IdleFusion /\ InitService /\ IdleApp
    /\ \E q \in QueryTexts, k \in {None, 1}, n \in BOOLEAN :
          /\ ner \in NerFor(NewRequest(q, k, None, n))
          /\ req = [r \in Requests |->
                       IF r = 1 THEN NewRequest(q, k, None, n) ELSE UnusedRequest]
NextCleanup == NextIcd \/ CleanupRelease \/ CleanupRaise
SpecCleanup == InitCleanup /\ [][NextCleanup]_vars

\* one HybridRetriever.search call over a corpus of one document, or one
\* search_icd_codes request for the best code that has the original
\* sub-query only; their backend calls may never complete
InitWaiting ==
    \/ /\ InitHybrid /\ IdleFusion /\ IdleIcd /\ IdleApp
       /\ Len(documents) = 1
       /\ failing = {}
    \/ /\ IdleHybrid /\ IdleFusion /\ InitService /\ IdleApp
       /\ \E t \in ThresholdArgs, n \in BOOLEAN :
             /\ ner = (IF n THEN [pipeline |-> TRUE, model |-> Returns(<<>>), rules |-> Raises]
                       ELSE NerUnused)
             /\ req = [r \in Requests |->
                          IF r = 1 THEN NewRequest("q", 1, t, n) ELSE UnusedRequest]
NextWaiting ==
    \/ HybridSearch \/ HybridSearchNeverCompletes
    \/ NextIcd \/ \E r \in Requests : IcdSearchNeverCompletes(r)
\* a call that can go on does go on
SpecWaiting == InitWaiting /\ [][NextWaiting]_vars /\ WF_vars(NextWaiting)

\* one request without entity extraction, with explicit and missing top_k
\* and score_threshold, zero included
InitDefaults ==
    /\ IdleHybrid /\ IdleFusion /\ InitService /\ IdleApp
    /\ ner = NerUnused
    /\ \E k \in {None, 0, 1}, t \in {None, 0, 40000} :
          req = [r \in Requests |->
                    IF r = 1 THEN NewRequest("q", k, t, FALSE) ELSE UnusedRequest]
SpecDefaults == InitDefaults /\ [][NextIcd]_vars

\* the application's shutdown paths
InitShutdown == IdleHybrid /\ IdleFusion /\ IdleIcd /\ InitApp
NextApp == Signal \/ MainStep \/ OtherStep
SpecApp == InitShutdown /\ [][NextApp]_vars
\* a thread that can take a step takes one; the arrival of a signal is
\* left to the environment
SpecAppFair == SpecApp /\ WF_vars(MainStep) /\ WF_vars(OtherStep)

\* _build_search_queries called on its own
InitBuild == IdleHybrid /\ IdleFusion /\ IdleIcd /\ IdleApp
SpecBuild == InitBuild /\ [][BuildQueries]_vars

(***************************************************************************)
(* Properties.                                                             *)
(***************************************************************************)
ScoreOf(d, key) == IF DictHas(d, key) THEN DictGet(d, key) ELSE 0
DocsOf(results) == {results[r].doc : r \in 1..Len(results)}

\* the sum of 1/(k + rank + 1) over the 0-based positions rank at which doc
\* stands in results, in units of 1/Unit(k)
ReciprocalRankSum(results, doc, k) ==
    SeqSum([r \in 1..Len(results) |->
               IF results[r].doc = doc THEN Unit(k) \div (k + (r - 1) + 1) ELSE 0])

\* C1: in HybridRetriever.search, for every k_rrf >= 0, the fused score of
\* each document is the sum, over the BM25 list and the dense list, of
\* 1/(k_rrf + rank + 1) for each 0-based position rank the document has in
\* the list; this holds of every document scored and of every one returned.
C1_FusedScoreIsReciprocalRankSum ==
    h_status = "returned" =>
        /\ \A i \in 1..Len(rrf_scores) :
              rrf_scores[i].val =
                  ReciprocalRankSum(bm25_results, rrf_scores[i].key, k_rrf)
                  + ReciprocalRankSum(dense_results, rrf_scores[i].key, k_rrf)
        /\ \A i \in 1..Len(h_return) :
              h_return[i].val =
                  ReciprocalRankSum(bm25_results, h_return[i].key, k_rrf)
                  + ReciprocalRankSum(dense_results, h_return[i].key, k_rrf)
        /\ {rrf_scores[i].key : i \in 1..Len(rrf_scores)}
              = DocsOf(bm25_results) \cup DocsOf(dense_results)

\* C1 witness: a search with the default constant returned a document that
\* stands in both lists, at rank 0 in one and at rank 1 in the other
C1_Witness ==
    /\ h_status = "returned"
    /\ k_rrf = KRrfDefault
    /\ \E i \in 1..Len(h_return) :
          /\ Len(bm25_results) >= 2 /\ Len(dense_results) >= 2
          /\ bm25_results[1].doc = h_return[i].key
          /\ dense_results[2].doc = h_return[i].key
          /\ h_return[i].val = Unit(KRrfDefault) \div 61 + Unit(KRrfDefault) \div 62

Without(results, doc) == SelectSeq(results, LAMBDA c : c.doc # doc)
WithoutDoc(docs, doc) == SelectSeq(docs, LAMBDA x : x # doc)
\* results with its n-th list replaced by l
WithList(results, n, l) == [results EXCEPT ![n] = l]
\* results without its n-th list
DropList(results, n) == SubSeq(results, 1, n - 1) \o SubSeq(results, n + 1, Len(results))

\* the sum of 1/(rank + k) over the 0-based positions of doc in docs
RagRankSum(docs, doc, k) ==
    SeqSum([r \in 1..Len(docs) |-> IF docs[r] = doc THEN Unit(k) \div ((r - 1) + k) ELSE 0])

\* C5: in the rank fusion a list that does not contain a document
\* contributes exactly 0 to the document's fused score (the score is what
\* the other lists alone give), and removing the document from one list
\* changes its fused score only by that list's contribution (the score
\* never becomes negative and is never penalised).
C5_AbsentListContributesNothing ==
    /\ h_status = "returned" =>
          \A d \in Docs :
            /\ ScoreOf(rrf_scores, d) >= 0
            /\ d \notin DocsOf(bm25_results) =>
                  ScoreOf(rrf_scores, d)
                      = ScoreOf(HybridRrfScores(<<>>, dense_results, k_rrf), d)
            /\ d \notin DocsOf(dense_results) =>
                  ScoreOf(rrf_scores, d)
                      = ScoreOf(HybridRrfScores(bm25_results, <<>>, k_rrf), d)
            /\ ScoreOf(HybridRrfScores(Without(bm25_results, d), dense_results, k_rrf), d)
                  = ScoreOf(rrf_scores, d) - ReciprocalRankSum(bm25_results, d, k_rrf)
            /\ ScoreOf(HybridRrfScores(bm25_results, Without(dense_results, d), k_rrf), d)
                  = ScoreOf(rrf_scores, d) - ReciprocalRankSum(dense_results, d, k_rrf)
    /\ rf_status = "returned" =>
          \A d \in Docs : \A n \in 1..Len(all_results) :
            /\ ScoreOf(fused_scores, d) >= 0
            /\ d \notin Range(all_results[n]) =>
                  ScoreOf(fused_scores, d)
                      = ScoreOf(RagFusedScores(DropList(all_results, n), rf_k), d)
            /\ d \in Range(all_results[n]) =>
                  ScoreOf(RagFusedScores(
                              WithList(all_results, n, WithoutDoc(all_results[n], d)), rf_k), d)
                      = ScoreOf(fused_scores, d) - RagRankSum(all_results[n], d, rf_k)

\* C5 witness: a fusion of three lists returned, one document standing in
\* the first two lists and not in the third, which is not empty
C5_Witness ==
    /\ rf_status = "returned"
    /\ rf_k = KRrfDefault
    /\ Len(all_results) = 3
    /\ all_results[3] # <<>>
    /\ \E d \in Docs :
          /\ d \in Range(all_results[1]) /\ d \in Range(all_results[2])
          /\ d \notin Range(all_results[3])
          /\ ScoreOf(fused_scores, d) > 0

\* the lists whose first document is doc
TopLists(results, doc) == {n \in 1..Len(results) : results[n] # <<>> /\ results[n][1] = doc}
ListsWith(results, doc) == {n \in 1..Len(results) : doc \in Range(results[n])}

\* C3: a document at rank 0 in two distinct lists has a strictly greater
\* fused score than any document that is at rank 0 in only one list and in
\* no other list.  For HybridRetriever.search, whose two lists cannot hold
\* both documents at once, the two sides are compared through the score
\* 2/(k_rrf + 1) that two rank-0 places are worth.
C3_TopOfTwoListsBeatsTopOfOne ==
    /\ rf_status = "returned" =>
          \A a, b \in Docs :
            (/\ Cardinality(TopLists(all_results, a)) >= 2
             /\ Cardinality(TopLists(all_results, b)) = 1
             /\ Cardinality(ListsWith(all_results, b)) = 1)
            => ScoreOf(fused_scores, a) > ScoreOf(fused_scores, b)
    /\ h_status = "returned" =>
          \A d \in Docs :
            /\ (/\ bm25_results # <<>> /\ bm25_results[1].doc = d
                /\ dense_results # <<>> /\ dense_results[1].doc = d)
               => ScoreOf(rrf_scores, d) >= 2 * (Unit(k_rrf) \div (k_rrf + 1))
            /\ (/\ dense_results # <<>> /\ dense_results[1].doc = d
                /\ d \notin DocsOf(bm25_results))
               => ScoreOf(rrf_scores, d) < 2 * (Unit(k_rrf) \div (k_rrf + 1))
            /\ (/\ bm25_results # <<>> /\ bm25_results[1].doc = d
                /\ d \notin DocsOf(dense_results))
               => ScoreOf(rrf_scores, d) < 2 * (Unit(k_rrf) \div (k_rrf + 1))

NoDuplicates(s) == \A i, j \in 1..Len(s) : i # j => s[i] # s[j]
CodesOf(entries) == [i \in 1..Len(entries) |-> entries[i].disease_code]
Done(r) == req[r].pc = "done"
Succeeded(r) == Done(r) /\ req[r].result.success

\* C6: with exactly one input list, in descending order and without
\* duplicate documents, the fused output order is the list's own order:
\* reciprocal_rank_fusion returns the single list's documents as they came,
\* and search_icd_codes with use_ner=False returns the backend's hits that
\* reach the threshold, in the backend's order, cut to top_k.
C6_SingleListPassthrough ==
    /\ (rf_status = "returned" /\ Len(all_results) = 1 /\ NoDuplicates(all_results[1]))
          => fused_docs = all_results[1]
    /\ \A r \in Requests :
          (Succeeded(r) /\ ~req[r].use_ner) =>
             /\ Len(req[r].answers) = 1
             /\ Len(req[r].search_queries) = 1
             /\ req[r].search_queries[1].weight = 10
             \* the list of the single sub-query: the hits of an answered
             \* search, the empty list of a failed one
             /\ LET hits == IF req[r].answers[1].ok THEN req[r].answers[1].hits ELSE <<>>
                    passing == SelectSeq(hits, LAMBDA h : h.score >= req[r].score_threshold)
                IN NoDuplicates(CodesOf(hits)) =>
                      CodesOf(req[r].result.results) = Take(CodesOf(passing), req[r].top_k)

\* C6 witness: search_icd_codes with use_ner=False returned two codes whose
\* hits had the same raw score, the backend having sent them in the order
\* B, A
C6_Witness ==
    /\ Succeeded(1) /\ ~req[1].use_ner
    /\ Len(req[1].answers[1].hits) = 2
    /\ req[1].answers[1].hits[1].score = req[1].answers[1].hits[2].score
    /\ CodesOf(req[1].answers[1].hits) = <<"B", "A">>
    /\ CodesOf(req[1].result.results) = <<"B", "A">>

RECURSIVE Flatten(_)
Flatten(ss) == IF ss = <<>> THEN <<>> ELSE Head(ss) \o Flatten(Tail(ss))

\* the permutations of 1..n, as sequences
Perms(n) == {p \in [1..n -> 1..n] : \A i, j \in 1..n : i # j => p[i] # p[j]}

\* the processed_results of each vector search of request r, from the
\* backend's answers
ProcessedLists(r) ==
    [j \in 1..Len(req[r].answers) |->
        ExecuteVectorSearch(req[r].answers[j], req[r].search_queries[j].weight,
                            req[r].score_threshold)]

\* C8: the final fused order does not depend on the order in which the
\* result lists arrive or are processed: with the BM25 list and the dense
\* list exchanged, or the lists given to reciprocal_rank_fusion or to
\* _merge_and_rank_results permuted, the ordered output is the same, ties
\* included.
C8_ArrivalOrderIndependent ==
    /\ h_status = "returned" =>
          HybridSorted(HybridRrfScores(dense_results, bm25_results, k_rrf), h_top_k)
              = h_return
    /\ rf_status = "returned" =>
          \A p \in Perms(Len(all_results)) :
              RagSorted(RagFusedScores(Pick(all_results, p), rf_k)) = fused_docs
    /\ \A r \in Requests :
          Succeeded(r) =>
             \A p \in Perms(Len(req[r].answers)) :
                 FormatSearchResults(
                     MergeAndRankResults(Flatten(Pick(ProcessedLists(r), p)), req[r].top_k))
                   = req[r].result

\* the highest raw score among the candidates of doc in the two lists of
\* HybridRetriever.search (both of the Original query)
SetMax(S) == IF S = {} THEN 0
             ELSE LET x == CHOOSE y \in S : \A z \in S : y >= z IN x
HybridBestRaw(doc) ==
    SetMax({bm25_results[r].score : r \in {q \in 1..Len(bm25_results) : bm25_results[q].doc = doc}}
           \cup {dense_results[r].score :
                    r \in {q \in 1..Len(dense_results) : dense_results[q].doc = doc}})

\* the highest raw score among the Original-origin candidates of code in
\* request r, or among all its candidates when none is of the Original query
IcdBestRaw(r, code) ==
    LET mine == {i \in 1..Len(req[r].all_results) : req[r].all_results[i].disease_code = code}
        orig == {i \in mine : req[r].all_results[i].query_weight = 10}
    IN SetMax({req[r].all_results[i].original_score : i \in (IF orig # {} THEN orig ELSE mine)})

\* a before b is the order of the tie-break: higher raw score, then smaller id
TieBreakOrder(rawA, a, rawB, b) == rawA > rawB \/ (rawA = rawB /\ DocLess(a, b))

\* C9: documents of equal fused score are ordered by the higher best raw
\* score of their Original-origin candidates, then by the smaller document
\* id, never by the insertion order of the dict.
C9_TiesByRawScoreThenDocId ==
    /\ h_status = "returned" =>
          \A i \in 1..(Len(h_return) - 1) :
             h_return[i].val = h_return[i + 1].val =>
                TieBreakOrder(HybridBestRaw(h_return[i].key), h_return[i].key,
                              HybridBestRaw(h_return[i + 1].key), h_return[i + 1].key)
    /\ \A r \in Requests :
          Succeeded(r) =>
            LET out == req[r].result.results
            IN \A i \in 1..(Len(out) - 1) :
                 out[i].weighted_score = out[i + 1].weighted_score =>
                    TieBreakOrder(IcdBestRaw(r, out[i].disease_code), out[i].disease_code,
                                  IcdBestRaw(r, out[i + 1].disease_code), out[i + 1].disease_code)

\* the best weighted score code has in the j-th sub-query's list of request
\* r: that list's contribution to the code (0 when the code is not in it)
ListContribution(r, j, code) ==
    LET l == ProcessedLists(r)[j]
    IN SetMax({l[i].weighted_score : i \in {q \in 1..Len(l) : l[q].disease_code = code}})
\* the sub-queries of request r whose list holds code
ListsOfCode(r, code) ==
    {j \in 1..Len(req[r].answers) : ListContribution(r, j, code) > 0}
Contributions(r, code) ==
    [j \in 1..Len(req[r].answers) |-> ListContribution(r, j, code)]
SeqMax(q) == SetMax(Range(q))

RankInList(entries, i) ==
    Cardinality({j \in 1..(i - 1) : entries[j].query_weight = entries[i].query_weight})

\* C4 as claimed: a candidate of an entity-derived sub-query of weight w
\* contributes exactly w times what a candidate of the Original sub-query
\* contributes at the same rank, whatever the raw scores.
C4_WeightTimesRankAmount ==
    \A r \in Requests :
      LET entries == req[r].all_results
      IN \A i, j \in 1..Len(entries) :
           (/\ entries[i].query_weight = 10
            /\ entries[j].query_weight < 10
            /\ RankInList(entries, i) = RankInList(entries, j))
           => entries[j].weighted_score * 10 = entries[j].query_weight * entries[i].weighted_score

\* C4 as amended: a candidate of a sub-query of weight w (1.0 for the
\* Original sub-query, 0.8 and 0.7 for the entity-derived ones) contributes
\* w times its own raw score, whatever its rank; so an entity-derived
\* candidate contributes exactly w times what an Original candidate of the
\* same raw score contributes.
C4_WeightTimesRawScore ==
    \A r \in Requests :
      LET entries == req[r].all_results
      IN /\ \A i \in 1..Len(entries) :
              /\ entries[i].weighted_score * 10
                    = entries[i].query_weight * (entries[i].original_score * 10)
              /\ \E q \in Range(req[r].search_queries) : q.weight = entries[i].query_weight
         /\ \A i, j \in 1..Len(entries) :
              (/\ entries[i].query_weight = 10
               /\ entries[j].query_weight < 10
               /\ entries[i].original_score = entries[j].original_score)
              => entries[j].weighted_score * 10
                    = entries[j].query_weight * entries[i].weighted_score

\* C4 witness: the Original sub-query and an entity-derived sub-query of
\* weight 0.8 each returned a candidate of raw score 1.0, at different ranks
C4_Witness ==
    LET entries == req[1].all_results
    IN \E i, j \in 1..Len(entries) :
         /\ entries[i].query_weight = 10 /\ entries[j].query_weight = 8
         /\ entries[i].original_score = 100000 /\ entries[j].original_score = 100000
         /\ RankInList(entries, i) # RankInList(entries, j)
         /\ entries[j].weighted_score = 800000

\* the arguments of request r
Arguments(r) == <<req[r].query_text, req[r].top_k_arg, req[r].score_threshold_arg,
                  req[r].use_ner>>

C10_OneRetrieverFailingStillReturns ==
    (h_status \in {"returned", "raised"} /\ Cardinality(failing) = 1)
        => h_status = "returned"

(***************************************************************************)
(* Failures, empty queries, truncation and the sub-query builder.          *)
(***************************************************************************)
\* the candidates each vector search of request r gave: those of an answered
\* search, none of a failed one
SurvivingLists(r) ==
    [j \in 1..Len(req[r].answers) |->
        IF req[r].answers[j].ok
        THEN Processed(req[r].answers[j].hits, req[r].search_queries[j].weight,
                       req[r].score_threshold)
        ELSE <<>>]
SomeSearchFailed(r) == \E j \in 1..Len(req[r].answers) : ~req[r].answers[j].ok
NonIncreasing(q) == \A i \in 1..(Len(q) - 1) : q[i] >= q[i + 1]

\* C11: in search_icd_codes a sub-query whose vector search fails
\* contributes an empty list; the other sub-queries are still executed and
\* the request returns success=True with the ranking merged from the other
\* sub-queries' results.
C11_FailedSubQueryIsSkipped ==
    \A r \in Requests :
      (req[r].pc \in {"search", "done"} /\ SomeSearchFailed(r)) =>
        /\ req[r].all_results = Flatten(SurvivingLists(r))
        /\ Done(r) =>
             /\ Len(req[r].answers) = Len(req[r].search_queries)
             /\ req[r].result.success
             /\ req[r].result.results
                  = FormattedResults(
                        MergeAndRankResults(Flatten(SurvivingLists(r)), req[r].top_k))

\* C11 witness: the first vector search of a request failed after the
\* backend had answered, the second was executed, and the request returned
\* the second's candidates
C11_Witness ==
    /\ Succeeded(1)
    /\ Len(req[1].answers) >= 2
    /\ req[1].answers[1] = FailedAfterHits
    /\ req[1].answers[2].ok
    /\ req[1].result.results # <<>>
    /\ \A i \in 1..Len(req[1].all_results) : req[1].all_results[i].query_weight < 10

\* C12 as claimed: when every vector search of a request fails,
\* search_icd_codes returns an error result (success=False).
C12_TotalBackendFailureIsAnError ==
    \A r \in Requests :
      (/\ Done(r)
       /\ Len(req[r].answers) >= 1
       /\ \A j \in 1..Len(req[r].answers) : ~req[r].answers[j].ok)
      => ~req[r].result.success

\* C13: an empty or whitespace-only query is rejected at once: the result
\* is an error with an empty results list, and neither the extractor, the
\* query builder, the vector search nor the merge has been invoked.
C13_BlankQueryRejected ==
    \A r \in Requests :
      (req[r].pc # "unused" /\ req[r].query_text \in {"", " "}) =>
         /\ req[r].pc \in {"start", "done"}
         /\ req[r].calls = {}
         /\ req[r].answers = <<>>
         /\ req[r].search_queries = <<>>
         /\ req[r].all_results = <<>>
         /\ Done(r) => /\ ~req[r].result.success
                       /\ req[r].result.error = "empty query"
                       /\ req[r].result.results = <<>>

\* C13 witness: a whitespace-only query asked with use_ner has returned
C13_Witness ==
    /\ Done(1)
    /\ req[1].query_text = " "
    /\ req[1].use_ner
    /\ ~req[1].result.success

\* every vector search of request r was answered, with no hit at or above
\* the threshold
NoCandidateAnywhere(r) ==
    /\ Len(req[r].answers) >= 1
    /\ \A j \in 1..Len(req[r].answers) :
         /\ req[r].answers[j].ok
         /\ \A i \in 1..Len(req[r].answers[j].hits) :
              req[r].answers[j].hits[i].score < req[r].score_threshold

\* C14: when every sub-query's backend call returns no candidate, or none
\* that passes the score threshold, search_icd_codes returns success=True
\* with an empty results list, best_match None and has_results False.
C14_NoCandidatesIsSuccess ==
    \A r \in Requests :
      (Done(r) /\ NoCandidateAnywhere(r)) =>
         /\ req[r].result.success
         /\ req[r].result.error = ""
         /\ req[r].result.results = <<>>
         /\ req[r].result.best_match = <<>>
         /\ ~req[r].result.has_results

\* C14 witness: two sub-queries, both answered, one of them with a hit
\* below the threshold
C14_Witness ==
    /\ Done(1) /\ NoCandidateAnywhere(1)
    /\ Len(req[1].answers) = 2
    /\ \E j \in 1..2 : req[1].answers[j].hits # <<>>
    /\ req[1].result.success

\* a returned value: a ranking with ranks 1..n and non-increasing weighted
\* scores, or an error with a message and no results
WellFormed(result) ==
    \/ /\ result.success
       /\ result.error = ""
       /\ \A i \in 1..Len(result.results) : result.results[i].rank = i
       /\ NonIncreasing([i \in 1..Len(result.results) |-> result.results[i].weighted_score])
       /\ result.has_results = (result.results # <<>>)
    \/ /\ ~result.success
       /\ result.error \notin {"", "pending"}
       /\ result.results = <<>>

\* C15: every call of search_icd_codes ends by returning, also when
\* cleanup_resources runs before or during the call; what it returns is a
\* ranking with ranks 1..n and non-increasing weighted scores, or an error
\* with a message and an empty results list; nothing is returned before the
\* end of the call.
C15_AlwaysReturnsWellFormed ==
    \A r \in Requests :
      /\ req[r].pc \in {"unused", "start", "search", "done"}
      /\ Done(r) => WellFormed(req[r].result)
      /\ ~Done(r) => req[r].result = NoResult
      /\ (Done(r) /\ ~req[r].result.success) =>
            \/ req[r].query_text \in {"", " "}
            \/ req[r].use_ner /\ released = Len(Components)

\* C15 witness: cleanup_resources ran to its end while a request was between
\* two vector searches; the request returned the ranking of the searches
\* made before
C15_Witness ==
    /\ Succeeded(1)
    /\ released = Len(Components)
    /\ cleanup_return = "true"
    /\ Len(req[1].answers) >= 2
    /\ req[1].answers[1].ok
    /\ ~req[1].answers[Len(req[1].answers)].ok
    /\ Len(req[1].result.results) >= 2

\* C16: within one fused result no document id occurs twice.
C16_UniqueDocIds ==
    /\ h_status = "returned" => NoDuplicates([i \in 1..Len(h_return) |-> h_return[i].key])
    /\ rf_status = "returned" => NoDuplicates(fused_docs)
    /\ \A r \in Requests : Done(r) => NoDuplicates(CodesOf(req[r].result.results))

\* C16 witness: reciprocal_rank_fusion returned from lists that repeat a
\* document inside a list and across lists
C16_Witness ==
    /\ rf_status = "returned"
    /\ Len(all_results) >= 2
    /\ ~NoDuplicates(all_results[1])
    /\ \E d \in Range(all_results[1]) : d \in Range(all_results[2])
    /\ Len(fused_docs) >= 2

\* the final score of code in request r: its highest weighted score
FinalScore(r, code) ==
    SetMax({req[r].all_results[i].weighted_score :
               i \in {q \in 1..Len(req[r].all_results) : req[r].all_results[q].disease_code = code}})
FusedCodes(r) == Range(CodesOf(req[r].all_results))

\* C17: for every k >= 1, HybridRetriever.search and search_icd_codes return
\* exactly min(k, number of distinct fused documents) entries, in
\* non-increasing order of final score, and no omitted document has a
\* strictly greater final score than a returned one.
C17_TopKTruncation ==
    /\ h_status = "returned" =>
         LET fused == DocsOf(bm25_results) \cup DocsOf(dense_results)
             returned == {h_return[i].key : i \in 1..Len(h_return)}
         IN /\ Len(h_return) = Min2(h_top_k, Cardinality(fused))
            /\ NonIncreasing([i \in 1..Len(h_return) |-> h_return[i].val])
            /\ returned \subseteq fused
            /\ \A d \in fused \ returned : \A i \in 1..Len(h_return) :
                  ScoreOf(rrf_scores, d) <= h_return[i].val
    /\ \A r \in Requests :
         Succeeded(r) =>
           LET out == req[r].result.results
               returned == Range(CodesOf(out))
           IN /\ Len(out) = Min2(req[r].top_k, Cardinality(FusedCodes(r)))
              /\ NonIncreasing([i \in 1..Len(out) |-> out[i].weighted_score])
              /\ returned \subseteq FusedCodes(r)
              /\ \A i \in 1..Len(out) :
                    out[i].weighted_score = Round4Weighted(FinalScore(r, out[i].disease_code))
              /\ \A c \in FusedCodes(r) \ returned : \A i \in 1..Len(out) :
                    FinalScore(r, c) <= FinalScore(r, out[i].disease_code)

\* C17 witness: search_icd_codes with top_k = 1 returned one of two fused
\* codes, the one of the higher final score
C17_Witness ==
    /\ Succeeded(1)
    /\ req[1].top_k = 1
    /\ Cardinality(FusedCodes(1)) = 2
    /\ Len(req[1].result.results) = 1
    /\ \E c \in FusedCodes(1) : FinalScore(1, c) < FinalScore(1, req[1].result.results[1].disease_code)

\* _build_search_queries has been called directly
Built == build_return # <<>>

\* C18: the first element returned by _build_search_queries is the original
\* query text with weight 1.0 and type 'original', and no other element has
\* weight 1.0 or type 'original'.
C18_OriginalQueryFirst ==
    Built =>
      /\ build_return[1] = [text |-> <<build_args.original_text>>, weight |-> 10,
                            type |-> "original"]
      /\ \A i \in 2..Len(build_return) :
            build_return[i].weight # 10 /\ build_return[i].type # "original"

\* C18 witness: a call with a blank original text and entities returned the
\* original query and an entity query
C18_Witness ==
    /\ Built
    /\ build_args.original_text = " "
    /\ build_args.use_ner
    /\ Len(build_return) >= 2

\* C19: _build_search_queries emits at most 2 entity-derived sub-queries,
\* with strictly decreasing weights below 1.0 and above 0 (0.8, then 0.7),
\* none of them with an empty or whitespace-only text.
C19_EntityQueriesBoundedAndDecreasing ==
    Built =>
      LET derived == Tail(build_return)
      IN /\ Len(derived) <= 2
         /\ \A i \in 1..Len(derived) :
               /\ derived[i].weight > 0 /\ derived[i].weight < 10
               /\ derived[i].weight = 8 - (i - 1)
               /\ \E p \in 1..Len(derived[i].text) : derived[i].text[p] \notin {"", " "}
         /\ \A i \in 1..(Len(derived) - 1) : derived[i].weight > derived[i + 1].weight
         /\ ~build_args.use_ner => derived = <<>>

\* C19 witness: a call whose symptom group was blank and skipped, and whose
\* disease group was emitted
C19_Witness ==
    /\ Built
    /\ build_args.use_ner
    /\ \E i \in 1..Len(build_args.entities) :
          build_args.entities[i].label = "SYMPTOM" /\ build_args.entities[i].text = " "
    /\ Len(build_return) = 2
    /\ build_return[2].weight = 8

\* the extractor's model inference raises
ModelRaises == ner.pipeline /\ ~ner.model.ok
\* the extractor ends without an entity
NerYieldsNothing ==
    \/ ner.pipeline /\ ner.model.ok /\ ner.model.entities = <<>>
    \/ (~ner.pipeline \/ ~ner.model.ok) /\ (~ner.rules.ok \/ ner.rules.entities = <<>>)
AskedWithNer(r) == Done(r) /\ req[r].use_ner /\ req[r].query_text \notin {"", " "}
OriginalOnly(r) ==
    /\ req[r].entities = <<>>
    /\ req[r].search_queries
         = <<[text |-> <<req[r].query_text>>, weight |-> 10, type |-> "original"]>>
    /\ Len(req[r].answers) = 1
    /\ "_execute_vector_search" \in req[r].calls
    /\ req[r].result.success

OriginalQueryOnly(r) ==
    req[r].search_queries
        = <<[text |-> <<req[r].query_text>>, weight |-> 10, type |-> "original"]>>

\* C21: with use_ner false, search_icd_codes never invokes the entity
\* extractor and searches for exactly one sub-query, the original query with
\* weight 1.0, whatever entities the text holds; with use_ner true,
\* entity-derived sub-queries are added only when the extraction returned a
\* non-empty list.
C21_NerOnlyWhenAsked ==
    \A r \in Requests :
      req[r].pc \in {"search", "done"} /\ req[r].query_text \notin {"", " "} =>
        /\ ~req[r].use_ner =>
              /\ "extract_entities" \notin req[r].calls
              /\ req[r].entities = <<>>
              /\ OriginalQueryOnly(r)
              /\ Done(r) => Len(req[r].answers) = 1
        /\ req[r].use_ner =>
              /\ req[r].entities = ExtractEntities(req[r].query_text, ner)
              /\ req[r].entities = <<>> => OriginalQueryOnly(r)
              /\ Len(req[r].search_queries) > 1 => req[r].entities # <<>>

\* C21 witness: a request without use_ner, whose extractor would have found
\* an entity in the query, has returned after one vector search
C21_Witness ==
    /\ Done(1) /\ ~req[1].use_ner
    /\ ExtractEntities(req[1].query_text, ner) # <<>>
    /\ Len(req[1].answers) = 1
    /\ req[1].result.results # <<>>

\* the raw scores of the candidates of code that the Original sub-query
\* (weight 1.0) of request r returned
OriginalRawScores(r, code) ==
    {req[r].all_results[i].original_score :
        i \in {q \in 1..Len(req[r].all_results) :
                  /\ req[r].all_results[q].disease_code = code
                  /\ req[r].all_results[q].query_weight = 10}}
\* the raw scores of all the candidates of code
AllRawScores(r, code) ==
    {req[r].all_results[i].original_score :
        i \in {q \in 1..Len(req[r].all_results) :
                  req[r].all_results[q].disease_code = code}}

\* C22: the similarity_score reported for a returned disease code is the
\* maximum raw score among the candidates of that code returned by the
\* Original sub-query; a candidate of an entity-derived sub-query determines
\* it only when the code has no candidate of the Original sub-query.
C22_SimilarityIsBestOriginalRaw ==
    \A r \in Requests :
      Succeeded(r) =>
        \A i \in 1..Len(req[r].result.results) :
          LET entry == req[r].result.results[i]
              original == OriginalRawScores(r, entry.disease_code)
          IN entry.similarity_score
                = Round4Raw(SetMax(IF original # {} THEN original
                                   ELSE AllRawScores(r, entry.disease_code)))

\* the raw scores of a retriever's list, and its documents
RawScoresOf(results) == [i \in 1..Len(results) |-> results[i].score]
RetrievedDocs(results) == [i \in 1..Len(results) |-> results[i].doc]

\* C23: for every corpus, repeated texts included, BM25Retriever.search and
\* DenseEmbeddingRetriever.search return at most k candidates, in
\* non-increasing order of raw score, and no document identifier twice in
\* one list (k is the corpus size in HybridRetriever.search).
C23_RetrieverListsAreClean ==
    \A results \in {bm25_results, dense_results} :
      /\ Len(results) <= Len(documents)
      /\ NonIncreasing(RawScoresOf(results))
      /\ NoDuplicates(RetrievedDocs(results))

\* what HybridRetriever.search's rule, 1 / (k + rank + 1), gives doc over
\* the lists of results
HybridRuleSum(results, doc, k) ==
    SeqSum([n \in 1..Len(results) |->
        SeqSum([r \in 1..Len(results[n]) |->
            IF results[n][r] = doc THEN Unit(k) \div (k + (r - 1) + 1) ELSE 0])])

\* C24: reciprocal_rank_fusion gives the candidate at 0-based rank r the
\* amount 1 / (k + r + 1), as HybridRetriever.search does, so the two give
\* identical fused scores on identical lists, and its denominator is never
\* k alone, nor zero, at rank 0: it returns for every k >= 0.
C24_SameRuleAsHybrid ==
    /\ rf_status # "raised"
    /\ rf_status = "returned" =>
          \A doc \in Docs :
            ScoreOf(fused_scores, doc) = HybridRuleSum(all_results, doc, rf_k)

\* the positions of all_results of request r that hold code
PositionsOf(r, code) ==
    {q \in 1..Len(req[r].all_results) : req[r].all_results[q].disease_code = code}
\* the earliest position of all_results that holds code with its greatest
\* weighted score
EarliestBest(r, code) ==
    CHOOSE q \in PositionsOf(r, code) :
      /\ \A p \in PositionsOf(r, code) :
            req[r].all_results[q].weighted_score >= req[r].all_results[p].weighted_score
      /\ \A p \in PositionsOf(r, code) :
            p < q => req[r].all_results[p].weighted_score
                        < req[r].all_results[q].weighted_score

\* what C26 says of each entry and of the order: an entry is the input
\* entry of its code with the greatest weighted score, the earliest of them
\* on ties; the list is in non-increasing order of weighted score, without a
\* code twice; weighted_score = original_score * query_weight, and
\* original_score is at least the threshold in force
MergedEntriesAreBest(r) ==
    LET out == req[r].final_results
    IN /\ NoDuplicates(CodesOf(out))
       /\ \A i \in 1..Len(out) :
             /\ out[i].disease_code \in FusedCodes(r)
             /\ out[i] = req[r].all_results[EarliestBest(r, out[i].disease_code)]
             /\ out[i].weighted_score = out[i].original_score * out[i].query_weight
             /\ out[i].original_score >= req[r].score_threshold
       /\ NonIncreasing([i \in 1..Len(out) |-> out[i].weighted_score])

\* C26 as claimed: _merge_and_rank_results returns one entry for each
\* distinct disease_code of its input, the input entry of greatest
\* weighted_score (the earliest on ties), in non-increasing order of
\* weighted_score, each with weighted_score = original_score * query_weight
\* and original_score at least the threshold in force.
C26_OneEntryPerInputCode ==
    \A r \in Requests :
      Succeeded(r) =>
        /\ MergedEntriesAreBest(r)
        /\ Range(CodesOf(req[r].final_results)) = FusedCodes(r)

\* C26 as amended: the list is cut to its first top_k entries, so the codes
\* returned are the min(top_k, number of distinct codes) codes of greatest
\* best weighted score; for each of them the rest of the claim holds.
C26_OneEntryPerKeptCode ==
    \A r \in Requests :
      Succeeded(r) =>
        /\ MergedEntriesAreBest(r)
        /\ Len(req[r].final_results) = Min2(req[r].top_k, Cardinality(FusedCodes(r)))
        /\ \A code \in FusedCodes(r) \ Range(CodesOf(req[r].final_results)) :
              \A i \in 1..Len(req[r].final_results) :
                 req[r].final_results[i].weighted_score
                    >= req[r].all_results[EarliestBest(r, code)].weighted_score

\* C26 witness: a code came twice with the same weighted score from entries
\* that differ, the earlier one was kept, and a second code was cut off by
\* top_k
C26_Witness ==
    /\ Succeeded(1)
    /\ req[1].top_k = 1
    /\ Cardinality(FusedCodes(1)) = 2
    /\ Len(req[1].final_results) = 1
    /\ \E p, q \in PositionsOf(1, req[1].final_results[1].disease_code) :
          /\ p < q
          /\ req[1].all_results[p] # req[1].all_results[q]
          /\ req[1].all_results[p].weighted_score = req[1].all_results[q].weighted_score
          /\ req[1].final_results[1] = req[1].all_results[p]

\* C25: HybridRetriever.search and search_icd_codes eventually return even
\* if one backend call never completes: a (sub-query, retriever) pair that
\* has not completed by a deadline counts as a failed, empty list, and the
\* request fuses the other lists and returns.
C25_ReturnsThoughABackendCallHangs ==
    /\ (h_status = "ready") ~> (h_status \in {"returned", "raised"})
    /\ \A r \in Requests : (req[r].pc = "search") ~> Done(r)

\* the frames of cleanup_all_resources on the stack of thread t
CleanupFrames(t) == {i \in 1..Len(stacks[t]) : stacks[t][i].fn = "cleanup"}
\* the frames that execute the cleanup body (the try statement)
InCleanupBody(t) ==
    {i \in CleanupFrames(t) :
        stacks[t][i].pc \in {"search", "in_search", "ner", "in_ner", "finally"}}

\* C27: every invocation of cleanup_all_resources eventually returns, under
\* every interleaving of calls from other threads, the atexit hook and
\* signal_handler running on the main thread, also when the signal arrives
\* while the main thread is inside cleanup_all_resources and holds
\* cleanup_lock.
C27_CleanupAlwaysReturns ==
    \A t \in Threads : (CleanupFrames(t) # {}) ~> (CleanupFrames(t) = {})

\* C28: over all the calls of cleanup_all_resources (other threads,
\* signal_handler followed by sys.exit, the atexit hook, main()'s finally
\* clause), cleanup_resources of each global service instance is invoked at
\* most once, and at most one execution of the cleanup body is in progress
\* at any time.
C28_CleanupAtMostOnce ==
    /\ \A s \in {"search_service", "ner_service"} : cleanups[s] <= 1
    /\ Cardinality(UNION {{<<t, i>> : i \in InCleanupBody(t)} : t \in Threads}) <= 1

\* C29: the entity-derived sub-queries that _build_search_queries emits for
\* one request have pairwise distinct texts, also when every entity is a
\* symptom: no entity text is issued as two sub-queries of different
\* weights.
C29_EntityQueryTextsDistinct ==
    Built =>
      LET derived == Tail(build_return)
      IN \A i, j \in 1..Len(derived) : i # j => derived[i].text # derived[j].text

\* C30: search_icd_codes uses default_top_k and the default score threshold
\* only when the argument is None; an explicit argument is honoured, top_k =
\* 0 (an empty result list) and score_threshold = 0.0 included.
C30_ExplicitArgumentsHonoured ==
    \A r \in Requests :
      req[r].pc \in {"search", "done"} /\ req[r].query_text \notin {"", " "} =>
        /\ req[r].top_k = (IF req[r].top_k_arg = None THEN DefaultTopK
                           ELSE req[r].top_k_arg)
        /\ req[r].score_threshold
              = (IF req[r].score_threshold_arg = None THEN DefaultScoreThreshold
                 ELSE req[r].score_threshold_arg)
        /\ (Succeeded(r) /\ req[r].top_k_arg = 0) => req[r].result.results = <<>>

====
